---- MODULE Spec2Model ----
(***************************************************************************)
(* DiskTest: the test engine (src/src/core/test_engine.py) as a state      *)
(* machine: one worker thread (TestEngine.run) interleaved with the        *)
(* control calls of the GUI thread, the test files on disk, the persisted  *)
(* session file and a restart of the application that resumes from it.     *)
(*                                                                         *)
(* Sizes are counted in MiB (the GUI's file_size_mb; the engine's          *)
(* file_size_gb * 1024).  A chunk on disk is the triple <<kind, seed, k>>: *)
(* the bytes generate_chunk returns for the k-th draw from a generator of  *)
(* that kind and seed since construction or reset().  For the fixed kinds  *)
(* every draw is the same bytes, so k is always 0; for Random two draws    *)
(* are equal exactly when their positions in the seeded stream are.        *)
(*                                                                         *)
(* The session record carries the fields the engine reads and writes       *)
(* (test_engine.py:212-225).                                               *)
(***************************************************************************)
EXTENDS Integers, Sequences, FiniteSets, TLC

\* ------------------------------------------------------------------ bounds
MaxFiles == 2
MaxChunks == 2
MaxControlCalls == 2
MaxFaults == 1
MaxRestarts == 1

\* ------------------------------------------------------- program constants
CHUNK_SIZE == 32
MAX_TOTAL_SIZE == 1024000000
MAX_FILE_COUNT == 999999
MAX_FILE_SIZE == 10485760
FileAnalyzer_CHUNK_SIZE == 16

PATTERN_SEQUENCE == <<"00", "FF", "AA", "55", "RND">>

PatternType == {"00", "FF", "AA", "55", "RND"}

\* ------------------------------------------------------------ input domains
Seeds == {7}

Selections == {<<"AA">>, <<"RND">>, <<"RND", "FF">>}

\* file sizes of less than one chunk and of MaxChunks chunks and a half
FileSizes == {CHUNK_SIZE \div 2, MaxChunks * CHUNK_SIZE + CHUNK_SIZE \div 2}

\* total sizes: not positive, less than one file, MaxFiles files
TotalSizes(fs) == {0, fs \div 2, MaxFiles * fs}

WriteFaults == {"ENOSPC", "EIO", "OTHER"}

ReadFaults == {"EIO", "OTHER"}

NoSession == [file_count |-> -1]

NoGenerator == [kind |-> "none", seed |-> 0, pos |-> 0]

NoFile == [exists |-> FALSE, data |-> <<>>]

Max(a, b) == IF a >= b THEN a ELSE b

\* ------------------------------------------------------- PatternGenerator
PatternGenerator(kind, seed) ==
    [kind |-> kind, seed |-> IF kind = "RND" THEN seed ELSE 0, pos |-> 0]

\* the bytes of the next generate_chunk(CHUNK_SIZE) call
generate_chunk(g) == <<g.kind, g.seed, g.pos>>

\* the generator after n generate_chunk(CHUNK_SIZE) calls
advance(g, n) == IF g.kind = "RND" THEN [g EXCEPT !.pos = g.pos + n] ELSE g

\* faulty variant of reset: the stream is not rewound
reset_keeps_position(g) == g

reset(g) == IF g.kind = "RND" THEN [g EXCEPT !.pos = 0] ELSE g

\* ------------------------------------------------------------ FileManager
\* the count without the minimum of one file
count_without_minimum(total_size, file_size) ==
    IF total_size <= 0 \/ total_size > MAX_TOTAL_SIZE
    THEN -1
    ELSE IF total_size \div file_size > MAX_FILE_COUNT THEN -1
    ELSE total_size \div file_size

calculate_file_count(total_size, file_size) ==
    IF total_size <= 0 \/ total_size > MAX_TOTAL_SIZE
    THEN -1
    ELSE LET count == Max(1, total_size \div file_size)
         IN  IF count > MAX_FILE_COUNT THEN -1 ELSE count

\* chunks_total of _write_file and _verify_file
chunks_total(s) == s.file_size \div CHUNK_SIZE

VARIABLES
    config,                 \* TestConfig the engine was constructed with
    state,                  \* TestEngine.state
    pause_event,            \* threading.Event _pause_event
    stop_event,             \* threading.Event _stop_event
    stop_after_file_event,  \* threading.Event _stop_after_file_event
    session,                \* TestEngine.session (SessionData) or NoSession
    stored,                 \* content of disktest_session.json or NoSession
    initial_resume,         \* _initial_resume_pattern / _phase / _file
    selected_patterns,      \* TestEngine.selected_patterns
    error_count,            \* TestEngine.error_count
    gen,                    \* the PatternGenerator local to run()
    disk,                   \* the test files: index -> [exists, data]
    pc,                     \* position of the worker thread
    pattern_idx,            \* loop variable of run()
    file_idx,               \* loop variable of _write_pattern/_verify_pattern
    chunk_idx,              \* loop variable of _write_file/_verify_file
    rpos,                   \* read offset (in chunks) of the file open in _verify_file
    ret,                    \* call site _handle_pause returns to
    success,                \* return value of _write_file/_verify_file
    error_events,           \* error_occurred signals emitted by this engine
    completed_events,       \* test_completed signals emitted by this engine
    summary_error_count,    \* error_count of the last test_completed summary
    hist,                   \* history of the run, read only by the properties
    call                    \* the library call made outside a run, with its outcome

engineVars == <<state, session, initial_resume, selected_patterns, error_count, gen>>
eventVars == <<pause_event, stop_event, stop_after_file_event>>
loopVars == <<pattern_idx, file_idx, chunk_idx, rpos, ret, success>>
signalVars == <<error_events, completed_events, summary_error_count>>

vars ==
    <<config, state, pause_event, stop_event, stop_after_file_event, session, stored,
      initial_resume, selected_patterns, error_count, gen, disk, pc, pattern_idx,
      file_idx, chunk_idx, rpos, ret, success, error_events, completed_events,
      summary_error_count, hist, call>>

\* no library call was made
NoCall == [op |-> "none"]

NoHistory ==
    [control_calls |-> 0,      \* control-surface calls made on this engine
     faults |-> 0,             \* I/O faults injected so far (all engines)
     restarts |-> 0,           \* application restarts
     stop_called |-> FALSE,    \* stop() was called on this engine
     on_stop_done |-> FALSE,   \* on_stop_clicked ran to its end
     fatal |-> "none",         \* fatal error of this engine's run
     resumed_from |-> "none",  \* phase of the checkpoint this engine resumed
     resume_called |-> FALSE]  \* resume() was called after the last pause request

\* TestEngine.__init__ for a new test
Init ==
    /\ \E sel \in Selections, fs \in FileSizes :
         \E total \in TotalSizes(fs) :
            config = [file_size |-> fs, total_size |-> total, selected_patterns |-> sel,
                      resume_session |-> FALSE, session_data |-> NoSession]
    /\ state = "IDLE"
    /\ pause_event = FALSE
    /\ stop_event = FALSE
    /\ stop_after_file_event = FALSE
    /\ session = NoSession
    /\ stored = NoSession
    /\ initial_resume = [pattern |-> "-1", phase |-> "None", file |-> 0]
    /\ selected_patterns = config.selected_patterns
    /\ error_count = 0
    /\ gen = NoGenerator
    /\ disk = [f \in 0..(MaxFiles - 1) |-> NoFile]
    /\ pc = "created"
    /\ pattern_idx = 0
    /\ file_idx = 0
    /\ chunk_idx = 0
    /\ rpos = 0
    /\ ret = "none"
    /\ success = TRUE
    /\ error_events = 0
    /\ completed_events = 0
    /\ summary_error_count = 0
    /\ hist = NoHistory
    /\ call = NoCall

\* ---------------------------------------------------------------- SessionData
add_error(s, file, pattern, phase, message) ==
    [s EXCEPT !.errors =
        Append(@, [file |-> file, pattern |-> pattern, phase |-> phase,
                   message |-> message])]

\* ------------------------------------------------------------ SessionManager
SessionManager_save(data) == data

\* faulty variant of delete: the session file is not unlinked
delete_leaves_file(file) == file

SessionManager_delete(file) == NoSession

\* ------------------------------------------------------------- TestEngine.run
start_new_session(seed) ==
    LET file_count == calculate_file_count(config.total_size, config.file_size)
    IN  IF file_count = -1
        THEN \* calculate_file_count raises ValueError
             /\ pc' = "except"
             /\ UNCHANGED <<session, initial_resume, selected_patterns, hist>>
        ELSE /\ session' =
                    [file_size |-> config.file_size,
                     total_size |-> config.total_size,
                     file_count |-> file_count,
                     current_pattern_index |-> 0,
                     current_pattern_name |-> selected_patterns[1],
                     current_file_index |-> 0,
                     current_phase |-> "write",
                     current_chunk_index |-> 0,
                     random_seed |-> seed,
                     selected_patterns |-> selected_patterns,
                     completed_patterns |-> <<>>,
                     errors |-> <<>>]
             /\ pc' = "pattern_loop"
             /\ UNCHANGED <<initial_resume, selected_patterns, hist>>

resume_from_session ==
    LET data == config.session_data
        sel == IF config.selected_patterns # <<>>
               THEN config.selected_patterns
               ELSE IF data.selected_patterns # <<>>
                    THEN data.selected_patterns
                    ELSE selected_patterns
    IN  /\ initial_resume' = [pattern |-> data.current_pattern_name,
                              phase |-> data.current_phase,
                              file |-> data.current_file_index]
        /\ selected_patterns' = sel
        /\ session' = IF config.selected_patterns # <<>>
                      THEN [data EXCEPT !.selected_patterns = sel]
                      ELSE data
        /\ hist' = [hist EXCEPT !.resumed_from = data.current_phase]
        /\ pc' = "pattern_loop"

run_Start ==
    /\ pc = "created"
    /\ state' = "RUNNING"
    /\ IF config.resume_session /\ config.session_data # NoSession
       THEN resume_from_session
       ELSE \E seed \in Seeds : start_new_session(seed)
    /\ UNCHANGED <<call, config, eventVars, stored, error_count, gen, disk, loopVars,
                   signalVars>>

InSeq(x, seq) == \E i \in 1..Len(seq) : seq[i] = x

\* faulty variant of the skip: no pattern counts as completed
never_completed(pattern_type, s) == FALSE

\* the skip of run() (line 158): the pattern is in completed_patterns
already_completed(pattern_type, s) == InSeq(pattern_type, s.completed_patterns)

\* head of the pattern loop of run(): pattern_idx is the 0-based enumerate index
run_NextPattern ==
    /\ pc = "pattern_loop"
    /\ IF pattern_idx >= Len(selected_patterns)
       THEN /\ pc' = "run_end"
            /\ UNCHANGED <<session, gen, pattern_idx, file_idx>>
       ELSE LET pattern_type == selected_patterns[pattern_idx + 1]
            IN  IF already_completed(pattern_type, session)
                THEN /\ pattern_idx' = pattern_idx + 1
                     /\ UNCHANGED <<session, gen, pc, file_idx>>
                ELSE \* run lines 162-177 and _write_pattern lines 386-387
                     /\ session' = [session EXCEPT
                                      !.current_pattern_name = pattern_type,
                                      !.current_pattern_index = pattern_idx,
                                      !.current_phase = "write"]
                     /\ gen' = PatternGenerator(pattern_type, session.random_seed)
                     /\ file_idx' = 0
                     /\ pc' = "write_pattern"
                     /\ UNCHANGED pattern_idx
    /\ UNCHANGED <<call, config, state, eventVars, stored, initial_resume, selected_patterns,
                   error_count, disk, chunk_idx, rpos, ret, success, signalVars, hist>>

\* ------------------------------------------------------------------ helpers
FileName(i) == i + 1

AppendChunk(file, chunk) == [exists |-> TRUE, data |-> Append(file.data, chunk)]

\* open(filepath, 'wb') truncates, open(filepath, 'ab') keeps what is there
OpenForWrite(file, mode) ==
    IF mode = "wb" THEN [exists |-> TRUE, data |-> <<>>]
    ELSE [exists |-> TRUE, data |-> file.data]

\* _save_session
save_session == stored' = SessionManager_save(session')

\* The resume skip of _write_pattern (lines 403-405)
write_skip(pattern_type, idx) ==
    /\ initial_resume.pattern = pattern_type
    /\ initial_resume.phase = "write"
    /\ idx < initial_resume.file

\* The resume skip of _verify_pattern (lines 451-453)
verify_skip(pattern_type, idx) ==
    /\ initial_resume.pattern = pattern_type
    /\ initial_resume.phase = "verify"
    /\ idx < initial_resume.file

\* faulty variants of the return value: every error continues, every error aborts
except_returns_continue(fault) == TRUE

except_returns_abort(fault) == FALSE

\* return value of the except branches of _write_file (lines 573-586)
write_file_except_returns(fault) == fault \notin {"ENOSPC", "EIO"}

\* return value of the except branches of _verify_file (lines 729-739)
verify_file_except_returns(fault) == fault # "EIO"

\* what the engine does after a chunk is fully written or compared: the stop
\* check, the pause check, the next iteration (lines 533-545, 689-701).
\* s is the session and h the history after the chunk itself.
after_chunk(s, h, chunk_pc, done_pc, returned_pc) ==
    IF stop_event
    THEN /\ session' = [s EXCEPT !.current_chunk_index = chunk_idx + 1]
         /\ save_session
         /\ success' = FALSE
         /\ pc' = returned_pc
         /\ hist' = h
         /\ UNCHANGED <<state, chunk_idx, ret>>
    ELSE IF pause_event
    THEN \* lines 543-545 and _handle_pause up to its wait loop
         /\ session' = [s EXCEPT !.current_chunk_index = chunk_idx + 1]
         /\ save_session
         /\ state' = "PAUSED"
         /\ ret' = chunk_pc
         /\ pc' = "handle_pause"
         /\ hist' = h
         /\ UNCHANGED <<chunk_idx, success>>
    ELSE /\ session' = s
         /\ chunk_idx' = chunk_idx + 1
         /\ pc' = IF chunk_idx + 1 < chunks_total(s) THEN chunk_pc ELSE done_pc
         /\ hist' = h
         /\ UNCHANGED <<state, stored, ret, success>>

\* ------------------------------------------------------------- _write_pattern
\* start_chunk of _write_file and _verify_file (lines 485-490, 594-598)
start_chunk(s) == IF s.current_chunk_index > 0 THEN s.current_chunk_index ELSE 0

\* file_mode of _write_file (lines 486-491)
file_mode(s) == IF s.current_chunk_index > 0 THEN "ab" ELSE "wb"

\* the file loop of _write_pattern has a file to write
write_pattern_HasFile ==
    /\ pc = "write_pattern"
    /\ file_idx < session.file_count
    /\ ~write_skip(session.current_pattern_name, file_idx)

\* one iteration of the file loop of _write_pattern (lines 391-416) and
\* _write_file up to its chunk loop: resume handling and open() (lines 481-500)
write_pattern ==
    /\ pc = "write_pattern"
    /\ IF file_idx >= session.file_count
       THEN /\ pc' = "write_pattern_done"
            /\ UNCHANGED <<session, gen, disk, file_idx, chunk_idx>>
       ELSE IF write_skip(session.current_pattern_name, file_idx)
       THEN /\ file_idx' = file_idx + 1
            /\ UNCHANGED <<session, gen, disk, pc, chunk_idx>>
       ELSE /\ session' = [session EXCEPT !.current_file_index = file_idx]
            /\ gen' = advance(gen, start_chunk(session))
            /\ disk' = [disk EXCEPT ![file_idx] = OpenForWrite(@, file_mode(session))]
            /\ chunk_idx' = start_chunk(session)
            /\ pc' = IF start_chunk(session) < chunks_total(session)
                     THEN "write_chunk" ELSE "write_file_done"
            /\ UNCHANGED file_idx
    /\ UNCHANGED <<call, config, state, eventVars, stored, initial_resume, selected_patterns,
                   error_count, pattern_idx, rpos, ret, success, signalVars, hist>>

\* one iteration of the chunk loop of _write_file
write_file_Chunk ==
    /\ pc = "write_chunk"
    /\ disk' = [disk EXCEPT ![file_idx] = AppendChunk(@, generate_chunk(gen))]
    /\ gen' = advance(gen, 1)
    /\ after_chunk(session, hist, "write_chunk", "write_file_done", "write_returned")
    /\ UNCHANGED <<call, config, eventVars, initial_resume, selected_patterns, error_count,
                   pattern_idx, file_idx, rpos, signalVars>>

\* _handle_write_error, _handle_disk_full, _handle_drive_error (write phase)
write_file_except(s, fault) ==
    /\ error_count' = error_count + 1
    /\ session' = add_error(s, FileName(file_idx), s.current_pattern_name, "write",
                            fault)
    /\ error_events' = error_events + 1
    /\ success' = write_file_except_returns(fault)
    /\ IF fault \in {"ENOSPC", "EIO"}
       THEN /\ state' = "ERROR"
            /\ save_session
       ELSE UNCHANGED <<state, stored>>
    /\ hist' = [hist EXCEPT !.faults = @ + 1,
                            !.fatal = IF fault \in {"ENOSPC", "EIO"} THEN fault ELSE @]
    /\ pc' = "write_returned"

\* open() of _write_file raises OSError
write_file_OpenFault ==
    /\ write_pattern_HasFile
    /\ hist.faults < MaxFaults
    /\ gen' = advance(gen, start_chunk(session))
    /\ write_file_except([session EXCEPT !.current_file_index = file_idx], "OTHER")
    /\ UNCHANGED <<call, config, eventVars, initial_resume, selected_patterns, disk,
                   pattern_idx, file_idx, chunk_idx, rpos, ret, completed_events,
                   summary_error_count>>

\* f.write(chunk) of _write_file raises OSError: the chunk was generated, not written
write_file_ChunkFault ==
    /\ pc = "write_chunk"
    /\ hist.faults < MaxFaults
    /\ gen' = advance(gen, 1)
    /\ \E fault \in WriteFaults : write_file_except(session, fault)
    /\ UNCHANGED <<call, config, eventVars, initial_resume, selected_patterns, disk,
                   pattern_idx, file_idx, chunk_idx, rpos, ret, completed_events,
                   summary_error_count>>

\* _write_file after the chunk loop (lines 547-571) up to the wait loop
write_file_Done ==
    /\ pc = "write_file_done"
    /\ session' = [session EXCEPT !.current_chunk_index = 0]
    /\ IF stop_after_file_event
       THEN /\ save_session
            /\ state' = "PAUSED"
            /\ pc' = "stop_after_file_wait"
            /\ UNCHANGED success
       ELSE /\ success' = TRUE
            /\ pc' = "write_returned"
            /\ UNCHANGED <<state, stored>>
    /\ UNCHANGED <<call, config, eventVars, initial_resume, selected_patterns, error_count,
                   gen, disk, pattern_idx, file_idx, chunk_idx, rpos, ret, signalVars,
                   hist>>

\* _write_pattern after _write_file returned (lines 418-427)
write_pattern_Returned ==
    /\ pc = "write_returned"
    /\ IF ~success \/ stop_event
       THEN /\ pc' = "run_end"
            /\ UNCHANGED <<state, stored, ret, file_idx>>
       ELSE IF pause_event
       THEN /\ state' = "PAUSED"
            /\ stored' = SessionManager_save(session)
            /\ ret' = "write_pattern"
            /\ pc' = "handle_pause"
            /\ UNCHANGED file_idx
       ELSE /\ file_idx' = file_idx + 1
            /\ pc' = "write_pattern"
            /\ UNCHANGED <<state, stored, ret>>
    /\ UNCHANGED <<call, config, eventVars, session, initial_resume, selected_patterns,
                   error_count, gen, disk, pattern_idx, chunk_idx, rpos, success,
                   signalVars, hist>>

\* ------------------------------------------------------------ _verify_pattern
\* run lines 181-183 and _verify_pattern lines 442-444
run_StartVerify ==
    /\ pc = "write_pattern_done"
    /\ gen' = reset(gen)
    /\ session' = [session EXCEPT !.current_phase = "verify", !.current_file_index = 0]
    /\ file_idx' = 0
    /\ pc' = "verify_pattern"
    /\ UNCHANGED <<call, config, state, eventVars, stored, initial_resume, selected_patterns,
                   error_count, disk, pattern_idx, chunk_idx, rpos, ret, success,
                   signalVars, hist>>

\* _handle_read_error, _handle_drive_error (verify phase); s is the session and
\* h the history so far
verify_file_except(s, fault, h) ==
    /\ error_count' = error_count + 1
    /\ session' = add_error(s, FileName(file_idx), s.current_pattern_name,
                            s.current_phase, fault)
    /\ error_events' = error_events + 1
    /\ success' = verify_file_except_returns(fault)
    /\ IF fault = "EIO"
       THEN /\ state' = "ERROR"
            /\ save_session
       ELSE UNCHANGED <<state, stored>>
    /\ hist' = [h EXCEPT !.fatal = IF fault = "EIO" THEN fault ELSE @]
    /\ pc' = "verify_returned"

\* one iteration of the file loop of _verify_pattern (lines 448-468) and
\* _verify_file up to its chunk loop: resume handling, open, seek (lines 590-633)
verify_pattern ==
    /\ pc = "verify_pattern"
    /\ IF file_idx >= session.file_count
       THEN /\ pc' = "verify_pattern_done"
            /\ UNCHANGED <<state, session, stored, error_count, gen, file_idx,
                           chunk_idx, rpos, success, error_events, hist>>
       ELSE IF verify_skip(session.current_pattern_name, file_idx)
       THEN /\ gen' = advance(gen, chunks_total(session))
            /\ file_idx' = file_idx + 1
            /\ UNCHANGED <<state, session, stored, error_count, pc, chunk_idx, rpos,
                           success, error_events, hist>>
       ELSE LET s == [session EXCEPT !.current_file_index = file_idx]
            IN  /\ gen' = advance(gen, start_chunk(s))
                /\ IF disk[file_idx].exists
                   THEN /\ session' = s
                        /\ chunk_idx' = start_chunk(s)
                        /\ rpos' = start_chunk(s)
                        /\ pc' = IF start_chunk(s) < chunks_total(s)
                                 THEN "verify_chunk" ELSE "verify_file_done"
                        /\ UNCHANGED <<state, stored, error_count, success,
                                       error_events, hist>>
                   ELSE \* open() raises FileNotFoundError
                        /\ verify_file_except(s, "ENOENT", hist)
                        /\ UNCHANGED <<chunk_idx, rpos>>
                /\ UNCHANGED file_idx
    /\ UNCHANGED <<call, config, eventVars, initial_resume, selected_patterns, disk,
                   pattern_idx, ret, completed_events, summary_error_count>>

\* one iteration of the chunk loop of _verify_file
verify_file_Chunk ==
    /\ pc = "verify_chunk"
    /\ gen' = advance(gen, 1)
    /\ LET expected == generate_chunk(gen)
           data == disk[file_idx].data
       IN  IF rpos >= Len(data)
           THEN \* f.read returns fewer bytes than CHUNK_SIZE (lines 643-648)
                /\ verify_file_except(session, "TRUNCATED", hist)
                /\ UNCHANGED <<chunk_idx, rpos, ret>>
           ELSE /\ rpos' = rpos + 1
                /\ IF expected # data[rpos + 1]
                   THEN \* _handle_verification_error
                        /\ error_count' = error_count + 1
                        /\ error_events' = error_events + 1
                        /\ after_chunk(
                              add_error(session, FileName(file_idx),
                                        session.current_pattern_name, "verify",
                                        "MISMATCH"),
                              hist,
                              "verify_chunk", "verify_file_done", "verify_returned")
                   ELSE /\ after_chunk(session, hist, "verify_chunk",
                                       "verify_file_done", "verify_returned")
                        /\ UNCHANGED <<error_count, error_events>>
    /\ UNCHANGED <<call, config, eventVars, initial_resume, selected_patterns, disk,
                   pattern_idx, file_idx, completed_events, summary_error_count>>

\* f.read(CHUNK_SIZE) of _verify_file raises OSError: expected was generated
verify_file_ChunkFault ==
    /\ pc = "verify_chunk"
    /\ hist.faults < MaxFaults
    /\ gen' = advance(gen, 1)
    /\ \E fault \in ReadFaults :
          verify_file_except(session, fault, [hist EXCEPT !.faults = @ + 1])
    /\ UNCHANGED <<call, config, eventVars, initial_resume, selected_patterns, disk,
                   pattern_idx, file_idx, chunk_idx, rpos, ret, completed_events,
                   summary_error_count>>

\* _verify_file after the chunk loop (lines 703-727) up to the wait loop
verify_file_Done ==
    /\ pc = "verify_file_done"
    /\ session' = [session EXCEPT !.current_chunk_index = 0]
    /\ IF stop_after_file_event
       THEN /\ save_session
            /\ state' = "PAUSED"
            /\ pc' = "stop_after_file_wait"
            /\ UNCHANGED success
       ELSE /\ success' = TRUE
            /\ pc' = "verify_returned"
            /\ UNCHANGED <<state, stored>>
    /\ UNCHANGED <<call, config, eventVars, initial_resume, selected_patterns, error_count,
                   gen, disk, pattern_idx, file_idx, chunk_idx, rpos, ret, signalVars,
                   hist>>

\* _verify_pattern after _verify_file returned (lines 468-475)
verify_pattern_Returned ==
    /\ pc = "verify_returned"
    /\ IF ~success \/ stop_event
       THEN /\ pc' = "run_end"
            /\ UNCHANGED <<state, stored, ret, file_idx>>
       ELSE IF pause_event
       THEN /\ state' = "PAUSED"
            /\ stored' = SessionManager_save(session)
            /\ ret' = "verify_pattern"
            /\ pc' = "handle_pause"
            /\ UNCHANGED file_idx
       ELSE /\ file_idx' = file_idx + 1
            /\ pc' = "verify_pattern"
            /\ UNCHANGED <<state, stored, ret>>
    /\ UNCHANGED <<call, config, eventVars, session, initial_resume, selected_patterns,
                   error_count, gen, disk, pattern_idx, chunk_idx, rpos, success,
                   signalVars, hist>>

\* run lines 187-189: the pattern went through both phases
run_PatternCompleted ==
    /\ pc = "verify_pattern_done"
    /\ session' = IF InSeq(session.current_pattern_name, session.completed_patterns)
                  THEN session
                  ELSE [session EXCEPT
                          !.completed_patterns = Append(@, selected_patterns[pattern_idx + 1])]
    /\ pattern_idx' = pattern_idx + 1
    /\ pc' = "pattern_loop"
    /\ UNCHANGED <<call, config, state, eventVars, stored, initial_resume, selected_patterns,
                   error_count, gen, disk, file_idx, chunk_idx, rpos, ret, success,
                   signalVars, hist>>

\* ----------------------------------------------------------- waiting, the end
\* _handle_pause after its wait loop (lines 771-780) and the return to the caller
handle_pause_Return ==
    /\ pc = "handle_pause"
    /\ ~(pause_event /\ ~stop_event)
    /\ state' = IF stop_event THEN state ELSE "RUNNING"
    /\ IF ret \in {"write_chunk", "verify_chunk"}
       THEN /\ chunk_idx' = chunk_idx + 1
            /\ pc' = IF chunk_idx + 1 < chunks_total(session)
                     THEN ret
                     ELSE IF ret = "write_chunk" THEN "write_file_done"
                          ELSE "verify_file_done"
            /\ UNCHANGED file_idx
       ELSE /\ file_idx' = file_idx + 1
            /\ pc' = ret
            /\ UNCHANGED chunk_idx
    /\ UNCHANGED <<call, config, eventVars, session, stored, initial_resume, selected_patterns,
                   error_count, gen, disk, pattern_idx, rpos, ret, success, signalVars,
                   hist>>

\* faulty variant of the wait condition: the loop does not look at the stop event
waiting_ignores_stop == stop_after_file_event

\* condition of the wait loop after a file (lines 559, 715)
stop_after_file_waiting == stop_after_file_event /\ ~stop_event

\* the wait loop after a file (lines 559-571, 715-727) and the return to the caller
stop_after_file_Return ==
    /\ pc = "stop_after_file_wait"
    /\ ~stop_after_file_waiting
    /\ IF stop_event
       THEN /\ success' = FALSE
            /\ UNCHANGED state
       ELSE /\ success' = TRUE
            /\ state' = "RUNNING"
    /\ pc' = IF session.current_phase = "write" THEN "write_returned" ELSE "verify_returned"
    /\ UNCHANGED <<call, config, eventVars, session, stored, initial_resume, selected_patterns,
                   error_count, gen, disk, pattern_idx, file_idx, chunk_idx, rpos, ret,
                   signalVars, hist>>

\* _complete_test
complete_test ==
    /\ state' = "COMPLETED"
    /\ session' = [session EXCEPT !.current_file_index = session.file_count,
                                  !.current_chunk_index = 0]
    /\ completed_events' = completed_events + 1
    /\ summary_error_count' = error_count
    /\ stored' = SessionManager_delete(stored)

\* run lines 191-193
run_End ==
    /\ pc = "run_end"
    /\ IF state = "RUNNING"
       THEN complete_test
       ELSE UNCHANGED <<state, session, stored, completed_events, summary_error_count>>
    /\ pc' = "finally"
    /\ UNCHANGED <<call, config, eventVars, initial_resume, selected_patterns, error_count,
                   gen, disk, loopVars, error_events, hist>>

\* run lines 195-197: the except clause with _handle_error
run_Except ==
    /\ pc = "except"
    /\ state' = "ERROR"
    /\ error_events' = error_events + 1
    /\ hist' = [hist EXCEPT !.fatal = "EXCEPTION"]
    /\ pc' = "finally"
    /\ UNCHANGED <<call, config, eventVars, session, stored, initial_resume, selected_patterns,
                   error_count, gen, disk, loopVars, completed_events,
                   summary_error_count>>

\* run lines 199-200
run_Finally ==
    /\ pc = "finally"
    /\ state' = "IDLE"
    /\ pc' = "terminated"
    /\ UNCHANGED <<call, config, eventVars, session, stored, initial_resume, selected_patterns,
                   error_count, gen, disk, loopVars, signalVars, hist>>

\* ------------------------------------------------- control surface (GUI thread)
\* The worker reads the events and writes the state only in the steps taken from
\* these positions; a call made while it is anywhere else has the effect of the
\* same call made when it reaches the next of them.
CallPoints ==
    {"write_chunk", "write_file_done", "write_returned", "verify_chunk",
     "verify_file_done", "verify_returned", "handle_pause", "stop_after_file_wait"}

CanCall == pc \in CallPoints /\ hist.control_calls < MaxControlCalls

pause ==
    /\ CanCall
    /\ state = "RUNNING"
    /\ ~pause_event
    /\ pause_event' = TRUE
    /\ hist' = [hist EXCEPT !.control_calls = @ + 1, !.resume_called = FALSE]
    /\ UNCHANGED <<call, config, state, stop_event, stop_after_file_event, session, stored,
                   initial_resume, selected_patterns, error_count, gen, disk, pc,
                   loopVars, signalVars>>

\* resume() clears the events only when the worker has already set PAUSED
\* (line 960); called earlier it returns without effect
resume ==
    /\ CanCall
    /\ pause_event \/ stop_after_file_event
    /\ IF state = "PAUSED"
       THEN /\ pause_event' = FALSE
            /\ stop_after_file_event' = FALSE
       ELSE UNCHANGED <<pause_event, stop_after_file_event>>
    /\ hist' = [hist EXCEPT !.control_calls = @ + 1, !.resume_called = TRUE]
    /\ UNCHANGED <<call, config, state, stop_event, session, stored, initial_resume,
                   selected_patterns, error_count, gen, disk, pc, loopVars, signalVars>>

stop ==
    /\ CanCall
    /\ ~stop_event
    /\ stop_event' = TRUE
    /\ pause_event' = IF state = "PAUSED" THEN FALSE ELSE pause_event
    /\ hist' = [hist EXCEPT !.control_calls = @ + 1, !.stop_called = TRUE]
    /\ UNCHANGED <<call, config, state, stop_after_file_event, session, stored,
                   initial_resume, selected_patterns, error_count, gen, disk, pc,
                   loopVars, signalVars>>

stop_after_current_file ==
    /\ CanCall
    /\ ~stop_after_file_event
    /\ stop_after_file_event' = TRUE
    /\ hist' = [hist EXCEPT !.control_calls = @ + 1, !.resume_called = FALSE]
    /\ UNCHANGED <<call, config, state, pause_event, stop_event, session, stored,
                   initial_resume, selected_patterns, error_count, gen, disk, pc,
                   loopVars, signalVars>>

\* TestController.on_stop_clicked after engine.stop() and engine.wait() returned:
\* the session file is deleted, the test files are left alone
on_stop_clicked_Delete ==
    /\ hist.stop_called
    /\ ~hist.on_stop_done
    /\ pc = "terminated"
    /\ stored' = SessionManager_delete(stored)
    /\ hist' = [hist EXCEPT !.on_stop_done = TRUE]
    /\ UNCHANGED <<call, config, engineVars, eventVars, disk, pc, loopVars, signalVars>>

\* TestController.on_pattern_selection_changed: while the test is paused the
\* user picks another selection; the completed patterns that are no longer
\* selected are dropped (after the user's confirmation; declining changes
\* nothing), the selection is stored in the session and the session is saved.
\* The engine's own selected_patterns, which run() iterates, is not touched.
on_pattern_selection_changed ==
    /\ state = "PAUSED"
    /\ pc \in {"handle_pause", "stop_after_file_wait"}
    /\ pause_event \/ stop_after_file_event
    /\ ~stop_event
    /\ session # NoSession
    /\ \E new \in Selections :
         /\ new # session.selected_patterns
         /\ session' = [session EXCEPT
                          !.completed_patterns =
                              SelectSeq(@, LAMBDA p : InSeq(p, new)),
                          !.selected_patterns = new]
    /\ stored' = SessionManager_save(session')
    /\ UNCHANGED <<call, config, state, eventVars, initial_resume, selected_patterns,
                   error_count, gen, disk, pc, loopVars, signalVars, hist>>

\* ---------------------------------------------------------------- restart
\* The session TestController._resume_test hands to the new engine: the loaded
\* one, with the file count computed again from the sizes in the GUI
\* (test_controller.py:471-476, without the minimum of one file).
resume_session_data(loaded, total_size) ==
    LET new_file_count == total_size \div loaded.file_size
    IN  IF new_file_count # loaded.file_count
        THEN [loaded EXCEPT !.total_size = total_size, !.file_count = new_file_count]
        ELSE loaded

\* The application is started again and resumes the persisted session
\* (TestController._resume_test without an engine): a new TestEngine with
\* resume_session and the loaded session, sizes and selection unchanged.  The
\* old worker has terminated or is blocked in a wait loop; a chunk counts as
\* on disk once f.write has returned.
Suspended == pc \in {"terminated", "handle_pause", "stop_after_file_wait"}

Restart ==
    /\ hist.restarts < MaxRestarts
    /\ stored # NoSession
    /\ Suspended
    /\ config' = [config EXCEPT
                    !.resume_session = TRUE,
                    !.session_data = resume_session_data(stored, config.total_size)]
    /\ state' = "IDLE"
    /\ pause_event' = FALSE
    /\ stop_event' = FALSE
    /\ stop_after_file_event' = FALSE
    /\ session' = NoSession
    /\ initial_resume' = [pattern |-> "-1", phase |-> "None", file |-> 0]
    /\ selected_patterns' = config.selected_patterns
    /\ error_count' = 0
    /\ gen' = NoGenerator
    /\ pc' = "created"
    /\ pattern_idx' = 0
    /\ file_idx' = 0
    /\ chunk_idx' = 0
    /\ rpos' = 0
    /\ ret' = "none"
    /\ success' = TRUE
    /\ error_events' = 0
    /\ completed_events' = 0
    /\ summary_error_count' = 0
    /\ hist' = [hist EXCEPT !.restarts = @ + 1, !.stop_called = FALSE,
                            !.on_stop_done = FALSE, !.fatal = "none",
                            !.resumed_from = "none", !.resume_called = FALSE]
    /\ UNCHANGED <<call, stored, disk>>

\* ------------------------------------------------------------ specification
\* the steps of the worker thread on storage that works
Steps ==
    \/ run_Start
    \/ run_NextPattern
    \/ write_pattern
    \/ write_file_Chunk
    \/ write_file_Done
    \/ write_pattern_Returned
    \/ run_StartVerify
    \/ verify_pattern
    \/ verify_file_Chunk
    \/ verify_file_Done
    \/ verify_pattern_Returned
    \/ run_PatternCompleted
    \/ handle_pause_Return
    \/ stop_after_file_Return
    \/ run_End
    \/ run_Except
    \/ run_Finally

\* the steps in which open(), write() or read() raises
Faults ==
    \/ write_file_OpenFault
    \/ write_file_ChunkFault
    \/ verify_file_ChunkFault

Worker == Steps \/ Faults

Control ==
    \/ pause
    \/ resume
    \/ stop
    \/ stop_after_current_file
    \/ on_stop_clicked_Delete

Next == Worker \/ Control \/ Restart

Spec == Init /\ [][Next]_vars

\* one run of one engine, from construction to the end of its worker thread
NextRun == Worker \/ Control

SpecRun == Init /\ [][NextRun]_vars

\* one run on storage that raises no I/O error, with a worker thread that is
\* scheduled fairly: while it has a step to take it eventually takes one; the
\* controlling thread is under no obligation
NextFair == Steps \/ Control

SpecFair == Init /\ [][NextFair]_vars /\ WF_vars(Steps)

\* one run on storage that raises no I/O error, in which the user may change
\* the pattern selection while the test is paused
NextSelect == Steps \/ Control \/ on_pattern_selection_changed

SpecSelect == Init /\ [][NextSelect]_vars

\* ================================================================ properties
\* the generator position of chunk c (0-based) of file f in an uninterrupted
\* Write phase: one generator per pattern, never reset between files
reference_chunk(kind, seed, cpf, f, c) ==
    generate_chunk(advance(PatternGenerator(kind, seed), f * cpf + c))

\* the test files an uninterrupted run of the configuration with the seed of
\* session s leaves behind: every file holds the last pattern of the selection
reference_disk(s) ==
    LET kind == config.selected_patterns[Len(config.selected_patterns)]
        cpf == config.file_size \div CHUNK_SIZE
        file_count == calculate_file_count(config.total_size, config.file_size)
    IN  [f \in 0..(MaxFiles - 1) |->
            IF f < file_count
            THEN [exists |-> TRUE,
                  data |-> [c \in 1..cpf |->
                              reference_chunk(kind, s.random_seed, cpf, f, c - 1)]]
            ELSE NoFile]

\* the worker has ended after emitting the completed event, without stop()
Completed == pc = "terminated" /\ completed_events = 1 /\ ~hist.stop_called

\* an uninterrupted, fault-free run leaves the reference files
UninterruptedRunLeavesReference ==
    (Completed /\ hist.control_calls = 0 /\ hist.faults = 0 /\ hist.restarts = 0)
        => disk = reference_disk(session)

chunks_processed ==
    IF session.current_phase = "write" THEN Len(disk[file_idx].data) ELSE rpos

\* the worker has left _write_file or _verify_file because stop() was called
StopExit == pc \in {"write_returned", "verify_returned"} /\ stop_event /\ ~success

IOFatal == {"ENOSPC", "EIO"}

GenericWriteErrorOn(f) ==
    /\ session.errors # <<>>
    /\ session.errors[Len(session.errors)] =
          [file |-> FileName(f), pattern |-> session.current_pattern_name,
           phase |-> "write", message |-> "OTHER"]

HasGenericWriteError ==
    \E i \in DOMAIN session.errors :
        session.errors[i].phase = "write" /\ session.errors[i].message = "OTHER"

C7_SessionKeptAfterFatal ==
    /\ [](hist.fatal # "none" /\ pc = "terminated" /\ ~hist.stop_called
            => stored # NoSession)
    /\ [][hist.fatal # "none" =>
            \A f \in DOMAIN disk : disk[f].exists => disk'[f].exists]_vars

\* ErrorRecords appended to session.errors by this engine
ErrorsAdded ==
    IF session = NoSession THEN 0
    ELSE Len(session.errors)
            - (IF config.resume_session THEN Len(config.session_data.errors) ELSE 0)

\* C8: in every state the number of error events emitted by the run equals the
\* number of ErrorRecords appended to session.errors during the run.
C8_ErrorsRecordedAndEmitted == error_events = ErrorsAdded

FilesComplete ==
    /\ session.file_count = Max(1, config.total_size \div config.file_size)
    /\ \A f \in DOMAIN disk :
         IF f < session.file_count
         THEN /\ disk[f].exists
              /\ Len(disk[f].data) = config.file_size \div CHUNK_SIZE
              /\ \A c \in DOMAIN disk[f].data :
                    disk[f].data[c][1] = selected_patterns[Len(selected_patterns)]
         ELSE ~disk[f].exists

Waiting == pc \in {"handle_pause", "stop_after_file_wait"}

Range(seq) == {seq[i] : i \in DOMAIN seq}

\* a step in which the caller changes the selection of the session
SelectionChanged ==
    /\ session # NoSession
    /\ session' # NoSession
    /\ session'.selected_patterns # session.selected_patterns

PyInt(n) == [t |-> "int", v |-> n]
PyFloat(n) == [t |-> "float", v |-> n]
PyBool(b) == [t |-> "bool", v |-> IF b THEN 1 ELSE 0]
PyStr(s) == [t |-> "str", s |-> s]
PyNone == [t |-> "None"]
PyList(seq) == [t |-> "list", items |-> seq]
PyDict(f) == [t |-> "dict", members |-> f]

\* Python's `a != 1`: int, float and bool compare by numeric value, every other
\* type is different from 1
py_ne_one(a) == ~(a.t \in {"int", "float", "bool"} /\ a.v = 1)

\* json.dump of a value: a JSON number keeps whether its literal has a fraction
\* part, a bool becomes true/false, None becomes null, a dict an object
RECURSIVE json_dump(_)
json_dump(a) ==
    CASE a.t = "int" -> [json |-> "number", fraction |-> FALSE, v |-> a.v]
      [] a.t = "float" -> [json |-> "number", fraction |-> TRUE, v |-> a.v]
      [] a.t = "bool" -> [json |-> IF a.v = 1 THEN "true" ELSE "false"]
      [] a.t = "str" -> [json |-> "string", s |-> a.s]
      [] a.t = "None" -> [json |-> "null"]
      [] a.t = "list" ->
            [json |-> "array", items |-> [i \in DOMAIN a.items |-> json_dump(a.items[i])]]
      [] a.t = "dict" ->
            [json |-> "object",
             members |-> [k \in DOMAIN a.members |-> json_dump(a.members[k])]]

\* json.load of a JSON value
RECURSIVE json_load(_)
json_load(j) ==
    CASE j.json = "number" -> IF j.fraction THEN PyFloat(j.v) ELSE PyInt(j.v)
      [] j.json = "true" -> PyBool(TRUE)
      [] j.json = "false" -> PyBool(FALSE)
      [] j.json = "string" -> PyStr(j.s)
      [] j.json = "null" -> PyNone
      [] j.json = "array" ->
            PyList([i \in DOMAIN j.items |-> json_load(j.items[i])])
      [] j.json = "object" ->
            PyDict([k \in DOMAIN j.members |-> json_load(j.members[k])])

\* the fields the dataclass SessionData declares, and those with a default
SessionData_fields ==
    {"target_path", "file_size_gb", "total_size_gb", "file_count",
     "current_pattern_index", "current_file_index", "current_phase",
     "current_chunk_index", "random_seed", "errors", "start_time",
     "elapsed_seconds", "version"}
SessionData_defaults ==
    [errors |-> PyList(<<>>), start_time |-> PyStr(""),
     elapsed_seconds |-> PyFloat(0), version |-> PyInt(1)]

\* __post_init__: a session whose start_time is empty gets the current time
post_init(data) ==
    IF data.start_time \in {PyStr(""), PyNone}
    THEN [data EXCEPT !.start_time = PyStr("now")]
    ELSE data

\* SessionData(**kwargs): a TypeError for a keyword that is not a field or for a
\* missing field without default; defaults fill the fields that are not given
SessionData(kwargs) ==
    IF \/ ~(DOMAIN kwargs \subseteq SessionData_fields)
       \/ ~((SessionData_fields \ DOMAIN SessionData_defaults) \subseteq DOMAIN kwargs)
    THEN [raised |-> "TypeError"]
    ELSE [raised |-> "no",
          value |-> post_init([f \in SessionData_fields |->
                                  IF f \in DOMAIN kwargs THEN kwargs[f]
                                  ELSE SessionData_defaults[f]])]

\* one entry of SessionData.errors as add_error appends it
ErrorEntry(file, pattern, phase) ==
    PyDict([file |-> PyStr(file), pattern |-> PyStr(pattern), phase |-> PyStr(phase),
            message |-> PyStr("Test-Fehler"), timestamp |-> PyStr("now")])

\* SessionData.add_error
SessionData_add_error(data, file, pattern, phase) ==
    [data EXCEPT !.errors = PyList(Append(@.items, ErrorEntry(file, pattern, phase)))]

\* a dictionary without the error list
to_dict_without_errors(data) == [f \in SessionData_fields \ {"errors"} |-> data[f]]

\* SessionData.to_dict: dataclasses.asdict
to_dict(data) == [f \in SessionData_fields |-> data[f]]

\* the text SessionManager.save writes: json.dump(data.to_dict())
save_text(data) == json_dump(PyDict(to_dict(data)))

\* SessionManager.load of an existing file: the version check on
\* session_dict.get('version', 1), then SessionData(**session_dict); the
\* ValueError of the version check and the TypeError of the constructor reach the
\* caller as IOError
SessionManager_load(file) ==
    LET session_dict == json_load(file).members
        version == IF "version" \in DOMAIN session_dict
                   THEN session_dict["version"]
                   ELSE PyInt(1)
    IN  IF py_ne_one(version)
        THEN [raised |-> "IOError"]
        ELSE IF SessionData(session_dict).raised # "no"
             THEN [raised |-> "IOError"]
             ELSE SessionData(session_dict)

\* the SessionData of a checkpoint
Checkpoint(pattern_index, phase, file, chunk, file_count, seed) ==
    SessionData([target_path |-> PyStr("D:"), file_size_gb |-> PyFloat(1),
                 total_size_gb |-> PyFloat(file_count), file_count |-> PyInt(file_count),
                 current_pattern_index |-> PyInt(pattern_index),
                 current_file_index |-> PyInt(file),
                 current_phase |-> PyStr(phase),
                 current_chunk_index |-> PyInt(chunk),
                 random_seed |-> PyInt(seed)]).value

\* sessions handed to save: the checkpoints of a two-file test, without and with
\* recorded errors
SessionValues ==
    LET plain == {Checkpoint(2, phase, file, chunk, 2, seed) :
                    phase \in {"write", "verify"}, file \in 0..1, chunk \in 0..1,
                    seed \in Seeds}
    IN  plain
          \cup {SessionData_add_error(s, "disktest_001.dat", "FF", "verify") : s \in plain}
          \cup {SessionData_add_error(SessionData_add_error(s, "disktest_001.dat", "FF", "verify"),
                          "disktest_002.dat", "RND", "write") : s \in plain}

\* values found under the key "version" of a session file somebody else wrote
VersionValues ==
    {PyInt(0), PyInt(1), PyInt(2), PyFloat(1), PyFloat(2), PyBool(TRUE), PyBool(FALSE),
     PyStr("1"), PyNone}

\* a session file as another program or version left it: the text of a saved
\* session with another value under "version", or without that key
ForeignFiles ==
    LET members(s) == save_text(s).members
    IN  {[json |-> "object",
          members |-> [k \in DOMAIN members(s) |->
                    IF k = "version" THEN json_dump(ver) ELSE members(s)[k]]] :
            s \in SessionValues, ver \in VersionValues}
        \cup {[json |-> "object",
               members |-> [k \in DOMAIN members(s) \ {"version"} |-> members(s)[k]]] :
                s \in SessionValues}

\* the variables of the engine, which the library calls leave alone
libEngineVars ==
    <<config, state, pause_event, stop_event, stop_after_file_event, session,
      initial_resume, selected_patterns, error_count, gen, disk, pc, pattern_idx,
      file_idx, chunk_idx, rpos, ret, success, error_events, completed_events,
      summary_error_count, hist>>

\* SessionManager.save(data)
SessionManager_save_Call ==
    /\ pc = "created"
    /\ call = NoCall
    /\ \E data \in SessionValues :
         /\ stored' = save_text(data)
         /\ call' = [op |-> "save", data |-> data]
    /\ UNCHANGED libEngineVars

\* the session file is replaced from outside the program
session_file_Replaced ==
    /\ pc = "created"
    /\ call = NoCall
    /\ \E file \in ForeignFiles :
         /\ stored' = file
         /\ call' = [op |-> "replace"]
    /\ UNCHANGED libEngineVars

\* SessionManager.load(), by any SessionManager of the directory, when the file
\* exists; the file is opened for reading only
SessionManager_load_Call ==
    /\ pc = "created"
    /\ call.op \in {"save", "replace"}
    /\ stored # NoSession
    /\ call' = [op |-> "load", file |-> stored, saved |-> call,
                result |-> SessionManager_load(stored)]
    /\ UNCHANGED stored
    /\ UNCHANGED libEngineVars

\* a fraction p/q with q > 0, for the float results of the progress methods
Frac(p, q) == [p |-> p, q |-> q]
FracEq(a, b) == a.p * b.q = b.p * a.q

\* min(100.0, max(0.0, x))
clamp_percent(x) ==
    IF x.p < 0 THEN Frac(0, 1)
    ELSE IF x.p > 100 * x.q THEN Frac(100, 1)
    ELSE x

\* SessionData.get_progress_percentage: total_phases is the literal 10, the
\* number of the current phase comes from current_pattern_index
get_progress_percentage(data) ==
    LET total_phases == 10
        current_phase_num == data.current_pattern_index.v * 2
                               + (IF data.current_phase.s = "verify" THEN 1 ELSE 0)
        phase_progress == IF data.file_count.v > 0
                          THEN Frac(data.current_file_index.v, data.file_count.v)
                          ELSE Frac(0, 1)
    IN  clamp_percent(Frac((current_phase_num * phase_progress.q + phase_progress.p) * 100,
                           total_phases * phase_progress.q))

\* get_progress_percentage() on the session of a test with selected_count
\* selected patterns of which the first current_pattern_index are completed
get_progress_percentage_Call ==
    /\ pc = "created"
    /\ call = NoCall
    /\ \E selected_count \in 1..Cardinality(PatternType), file_count \in 1..(MaxFiles + 1) :
         \E pattern_index \in 0..(selected_count - 1), phase \in {"write", "verify"},
            file \in 0..file_count, seed \in Seeds :
            LET data == Checkpoint(pattern_index, phase, file, 0, file_count, seed)
            IN  call' = [op |-> "get_progress_percentage",
                         selected_count |-> selected_count,
                         completed_count |-> pattern_index,
                         data |-> data,
                         result |-> get_progress_percentage(data)]
    /\ UNCHANGED stored
    /\ UNCHANGED libEngineVars

\* ---------------------------------------------------------------------------
\* FileManager (src/src/core/file_manager.py), sizes in MiB
\* ---------------------------------------------------------------------------

\* the validation of file_size_gb in FileManager.__init__
FileManager_init(file_size) ==
    IF file_size <= 0 \/ file_size > MAX_FILE_SIZE THEN "ValueError" ELSE "no"

\* three digits whatever the number of files
digits_always_three(file_count) == 3

\* FileManager._calculate_digits
calculate_digits(file_count) ==
    IF file_count < 1000 THEN 3
    ELSE IF file_count < 10000 THEN 4
    ELSE IF file_count < 100000 THEN 5
    ELSE 6

\* the decimal digits of n >= 0, most significant first
RECURSIVE decimal(_)
decimal(n) == IF n < 10 THEN <<n>> ELSE Append(decimal(n \div 10), n % 10)

\* the format specification 0{digits}d: zeros on the left up to digits
\* characters, never a digit removed
zero_padded(n, digits) ==
    LET d == decimal(n)
    IN  IF Len(d) >= digits THEN d ELSE [i \in 1..(digits - Len(d)) |-> 0] \o d

\* FileManager.get_file_path of a manager with _digits = digits
get_file_path(index, digits) ==
    IF index < 0 THEN [raised |-> "ValueError"]
    ELSE IF index >= 10^digits - 1 THEN [raised |-> "ValueError"]
    ELSE [raised |-> "no",
          value |-> [prefix |-> "disktest_", number |-> zero_padded(index + 1, digits),
                     suffix |-> ".dat"]]

\* file counts and indices around the places where the width changes
FileCounts == {1, 2, 999, 1000, 9999, 10000, 99999, 100000, 999999}
FileIndices(file_count) ==
    {-1, 0, 1, file_count - 2, file_count - 1, file_count,
     10^calculate_digits(file_count) - 2, 10^calculate_digits(file_count) - 1}

\* FileManager(target, file_size, file_count).get_file_path(index), and the
\* same manager asked for a second index
get_file_path_Call ==
    /\ pc = "created"
    /\ call = NoCall
    /\ \E file_count \in FileCounts :
         \E index \in FileIndices(file_count), other \in FileIndices(file_count) :
            call' = [op |-> "get_file_path", file_count |-> file_count,
                     digits |-> calculate_digits(file_count),
                     index |-> index, other |-> other,
                     result |-> get_file_path(index, calculate_digits(file_count)),
                     other_result |-> get_file_path(other, calculate_digits(file_count))]
    /\ UNCHANGED stored
    /\ UNCHANGED libEngineVars

\* total sizes and file sizes around the limits of FileManager
LibTotalSizes ==
    {-CHUNK_SIZE, 0, 1, CHUNK_SIZE, 100 * 1024, MAX_FILE_COUNT, MAX_FILE_COUNT + 1,
     MAX_TOTAL_SIZE, MAX_TOTAL_SIZE + 1024}
LibFileSizes == {-1, 0, 1, CHUNK_SIZE, 1024, MAX_FILE_SIZE, MAX_FILE_SIZE + 1}

\* FileManager(target, file_size).calculate_file_count(total_size); -1 stands
\* for a ValueError of the constructor or of the method
calculate_file_count_Call ==
    /\ pc = "created"
    /\ call = NoCall
    /\ \E total_size \in LibTotalSizes, file_size \in LibFileSizes :
         call' = [op |-> "calculate_file_count", total_size |-> total_size,
                  file_size |-> file_size,
                  result |-> IF FileManager_init(file_size) # "no" THEN -1
                             ELSE calculate_file_count(total_size, file_size)]
    /\ UNCHANGED stored
    /\ UNCHANGED libEngineVars

\* ---------------------------------------------------------------------------
\* FileAnalyzer (src/src/core/file_analyzer.py), sizes in MiB
\* ---------------------------------------------------------------------------

\* FileAnalyzer.__init__: the expected size is a whole number of the analyzer's
\* own chunks
expected_size(expected_file_size) ==
    (expected_file_size \div FileAnalyzer_CHUNK_SIZE) * FileAnalyzer_CHUNK_SIZE

\* the first bytes of a file, by what _detect_pattern looks at: the number of
\* different byte values and, when there is only one, that value
Samples ==
    {[unique |-> 1, byte |-> b] : b \in {"00", "55", "33"}}
      \cup {[unique |-> n, byte |-> "-"] : n \in {10, 11}}

\* FileAnalyzer._detect_pattern: nothing for an empty file, a fixed pattern for a
\* sample of that one byte, Random for more than 10 different byte values
detect_pattern(size, sample) ==
    IF size = 0 THEN "None"
    ELSE IF sample.unique = 1 /\ sample.byte \in {"00", "FF", "AA", "55"} THEN sample.byte
    ELSE IF sample.unique > 10 THEN "RND"
    ELSE "None"

\* FileAnalyzer._analyze_file
analyze_file(index, size, sample, expected) ==
    [file_index |-> index, detected_pattern |-> detect_pattern(size, sample),
     is_complete |-> (size = expected), actual_size |-> size, expected_size |-> expected]

\* the chain without the test for files that are too large
branch_without_oversize(result, expected) ==
    IF result.detected_pattern = "None" \/ result.actual_size = 0
    THEN "corrupted_incomplete"
    ELSE IF result.actual_size = expected THEN "complete"
    ELSE IF 0 < result.actual_size /\ result.actual_size < expected
    THEN "smaller_consistent"
    ELSE "none"

\* the if/elif chain in the loop of categorize_files: the list the result is
\* appended to, "none" when no branch is taken
categorize_branch(result, expected) ==
    IF \/ result.detected_pattern = "None"
       \/ result.actual_size = 0
       \/ result.actual_size > expected
    THEN "corrupted_incomplete"
    ELSE IF result.actual_size = expected THEN "complete"
    ELSE IF 0 < result.actual_size /\ result.actual_size < expected
    THEN "smaller_consistent"
    ELSE "none"

\* FileAnalyzer.categorize_files
categorize_files(results, expected) ==
    [c \in {"complete", "smaller_consistent", "corrupted_incomplete"} |->
        SelectSeq(results, LAMBDA r : categorize_branch(r, expected) = c)]

\* sizes of the files found: empty, below, at and above the expected size
FoundSizes(expected) ==
    {0, expected, expected + FileAnalyzer_CHUNK_SIZE}
      \cup (IF expected > 0 THEN {expected - FileAnalyzer_CHUNK_SIZE \div 2} ELSE {})

\* the results of analysing the files disktest_001.dat .. of a directory
AnalysisResults(expected) ==
    UNION {
        {[i \in 1..n |-> analyze_file(i - 1, sizes[i], samples[i], expected)] :
            sizes \in [1..n -> FoundSizes(expected)], samples \in [1..n -> Samples]} :
        n \in 1..MaxFiles}

\* FileAnalyzer(target, expected_file_size).categorize_files(results) on the
\* results of its analyze_existing_files
categorize_files_Call ==
    /\ pc = "created"
    /\ call = NoCall
    /\ \E expected_file_size \in FileSizes \cup {FileAnalyzer_CHUNK_SIZE \div 2} :
         \E results \in AnalysisResults(expected_size(expected_file_size)) :
            call' = [op |-> "categorize_files",
                     expected_size |-> expected_size(expected_file_size),
                     results |-> results,
                     result |-> categorize_files(results,
                                                 expected_size(expected_file_size))]
    /\ UNCHANGED stored
    /\ UNCHANGED libEngineVars

\* ---------------------------------------------------------------------------
\* PatternGenerator (src/src/core/patterns.py), called with any chunk size
\* ---------------------------------------------------------------------------

\* the byte of a fixed pattern, with AA and 55 exchanged
fixed_byte_exchanged(kind) ==
    CASE kind = "00" -> 0 [] kind = "FF" -> 255 [] kind = "AA" -> 85 [] kind = "55" -> 170

\* the byte the branches of generate_chunk fill a chunk of a fixed pattern with
fixed_byte(kind) ==
    CASE kind = "00" -> 0 [] kind = "FF" -> 255 [] kind = "AA" -> 170 [] kind = "55" -> 85

\* generate_chunk(size), size in bytes: for a fixed pattern size bytes of its
\* value; for Random the bytes random.Random.randbytes(size) returns, which are
\* a function of the seed, of the number of 32-bit words drawn from the stream
\* before (here g.pos) and of size
generate_bytes(g, size) ==
    IF g.kind = "RND"
    THEN <<"RND", g.seed, g.pos, size>>
    ELSE [i \in 1..size |-> fixed_byte(g.kind)]

\* the generator after generate_chunk(size): randbytes draws getrandbits(8 *
\* size), one word of the stream for every 4 bytes or part of them
after_bytes(g, size) ==
    IF g.kind = "RND" THEN [g EXCEPT !.pos = @ + (size + 3) \div 4] ELSE g

\* the chunks a generator returns for a sequence of sizes, and the generator
\* after them
RECURSIVE generate_all(_, _)
generate_all(g, sizes) ==
    IF sizes = <<>> THEN <<>>
    ELSE <<generate_bytes(g, Head(sizes))>>
            \o generate_all(after_bytes(g, Head(sizes)), Tail(sizes))

RECURSIVE after_all(_, _)
after_all(g, sizes) ==
    IF sizes = <<>> THEN g ELSE after_all(after_bytes(g, Head(sizes)), Tail(sizes))

\* sequences of up to two requested sizes, in bytes
SizeSequences ==
    LET sizes == {0, 1, 4, 5}
    IN  {<<>>} \cup {<<a>> : a \in sizes} \cup {<<a, b>> : a \in sizes, b \in sizes}

\* two generators of one kind and seed: the first returns the chunks of sizes;
\* the second draws the chunks of before and then returns the chunks of sizes,
\* once as it is and once after reset()
PatternGenerator_Call ==
    /\ pc = "created"
    /\ call = NoCall
    /\ \E kind \in PatternType, seed \in Seeds, before \in SizeSequences,
          sizes \in SizeSequences :
         LET first == PatternGenerator(kind, seed)
             second == after_all(PatternGenerator(kind, seed), before)
         IN  call' = [op |-> "PatternGenerator", kind |-> kind, seed |-> seed,
                      before |-> before, sizes |-> sizes,
                      first |-> generate_all(first, sizes),
                      second |-> generate_all(second, sizes),
                      second_reset |-> generate_all(reset(second), sizes)]
    /\ UNCHANGED stored
    /\ UNCHANGED libEngineVars

\* ------------------------------------------------- _verify_file, byte by byte
\* In these calls a chunk is CHUNK_SIZE bytes long and a byte is its value.

\* faulty variant of the offset: the position in the chunk, not in the file
offset_in_chunk(chunk_index, first_diff_pos) == first_diff_pos

\* abs_offset of _handle_verification_error (line 885)
abs_offset(chunk_index, first_diff_pos) == chunk_index * CHUNK_SIZE + first_diff_pos

\* the search loop of _verify_file (lines 652-656): the first position, from 0,
\* at which the chunks differ
first_diff_pos(expected, actual) ==
    CHOOSE i \in 0..(Len(expected) - 1) :
        /\ expected[i + 1] # actual[i + 1]
        /\ \A j \in 0..(i - 1) : expected[j + 1] = actual[j + 1]

\* the error _handle_verification_error records (lines 875-906)
verification_error(chunk_index, expected, actual) ==
    LET pos == first_diff_pos(expected, actual)
    IN  [kind |-> "verification", chunk |-> chunk_index, offset |-> pos,
         abs_offset |-> abs_offset(chunk_index, pos),
         expected |-> expected[pos + 1], actual |-> actual[pos + 1]]

\* the error _handle_read_error records for a short read (lines 643-647)
short_read_error(chunk_index, actual) ==
    [kind |-> "read", chunk |-> chunk_index, offset |-> Len(actual),
     abs_offset |-> 0, expected |-> 0, actual |-> 0]

\* the chunk loop of _verify_file (lines 635-666) on a file whose reads return
\* the chunks of reads, from chunk chunk_index on: the errors recorded, the
\* number of chunks compared and the return value
RECURSIVE verify_chunks(_, _, _)
verify_chunks(kind, reads, chunk_index) ==
    IF chunk_index >= Len(reads)
    THEN [errors |-> <<>>, compared |-> 0, result |-> TRUE]
    ELSE LET expected == [i \in 1..CHUNK_SIZE |-> fixed_byte(kind)]
             actual == reads[chunk_index + 1]
         IN  IF Len(actual) # CHUNK_SIZE
             THEN [errors |-> <<short_read_error(chunk_index, actual)>>,
                   compared |-> 0, result |-> TRUE]
             ELSE LET rest == verify_chunks(kind, reads, chunk_index + 1)
                  IN  [errors |->
                          (IF expected # actual
                           THEN <<verification_error(chunk_index, expected, actual)>>
                           ELSE <<>>) \o rest.errors,
                       compared |-> 1 + rest.compared,
                       result |-> rest.result]

\* what a read of one chunk of a file written with kind can return: the chunk
\* with some of the bytes at Positions overwritten, or fewer bytes
ChunkReads(kind) ==
    LET Positions == {0, 1, CHUNK_SIZE - 1}
        Overwrites == {0, 170}
    IN  {[i \in 1..CHUNK_SIZE |->
            IF (i - 1) \in DOMAIN w THEN w[i - 1] ELSE fixed_byte(kind)] :
                w \in UNION {[P -> Overwrites] : P \in SUBSET Positions}}
          \cup {[i \in 1..1 |-> fixed_byte(kind)]}

\* _verify_file on a file of one or two chunks, from chunk 0
verify_file_Call ==
    /\ pc = "created"
    /\ call = NoCall
    /\ \E kind \in {"00", "AA"} :
         \E reads \in {<<a>> : a \in ChunkReads(kind)}
                        \cup {<<a, b>> : a \in ChunkReads(kind), b \in ChunkReads(kind)} :
            LET r == verify_chunks(kind, reads, 0)
            IN  call' = [op |-> "verify_file", kind |-> kind, reads |-> reads,
                         errors |-> r.errors, compared |-> r.compared,
                         result |-> r.result]
    /\ UNCHANGED stored
    /\ UNCHANGED libEngineVars

\* --------------------------------------------------- the seek of _verify_file
\* faulty variant of the alignment: up to the next sector boundary
aligned_up(offset, sector_size) == ((offset + sector_size - 1) \div sector_size) * sector_size

\* aligned_offset of _verify_file (line 626)
aligned_offset(offset, sector_size) == (offset \div sector_size) * sector_size

\* the position _verify_file reads from first (lines 594-633): no seek for
\* start_chunk 0; the file objects of open_file_direct and of open() all have
\* fileno
verify_file_position(first_chunk, direct_io_available, sector_size) ==
    LET offset == first_chunk * CHUNK_SIZE
    IN  IF first_chunk > 0
        THEN IF direct_io_available /\ offset % sector_size # 0
             THEN aligned_offset(offset, sector_size)
             ELSE offset
        ELSE 0

\* sector sizes get_sector_size may return: one that divides the chunk size
\* and two that do not
SectorSizes == {CHUNK_SIZE \div 2, 5, CHUNK_SIZE + CHUNK_SIZE \div 2}

verify_file_position_Call ==
    /\ pc = "created"
    /\ call = NoCall
    /\ \E first_chunk \in 0..(MaxChunks + 1), direct \in BOOLEAN,
          sector_size \in SectorSizes :
         call' = [op |-> "verify_file_position", start_chunk |-> first_chunk,
                  direct |-> direct, sector_size |-> sector_size,
                  position |-> verify_file_position(first_chunk, direct, sector_size)]
    /\ UNCHANGED stored
    /\ UNCHANGED libEngineVars

\* ----------------------------------------- FileController.fill_missing_files
\* results maps an engine index to "absent" (no file), "none" (a file without
\* a detected pattern) or the detected pattern of the file there.
GapIndices == 0..3

existing_indices(results) == {i \in GapIndices : results[i] # "absent"}

missing_indices(results) ==
    LET existing == existing_indices(results)
        min_index == CHOOSE i \in existing : \A j \in existing : i <= j
        max_index == CHOOSE i \in existing : \A j \in existing : i >= j
    IN  (min_index..max_index) \ existing

\* fill_missing_files (lines 53-130): the returns without effect; with a gap
\* and a usable file, line 103 evaluates session_data.file_count, and
\* session_data is neither a parameter nor a local nor a global of the module:
\* NameError, raised before a file is opened. created is the set of indices a
\* file was created for.
fill_missing_files(results, file_size) ==
    IF existing_indices(results) = {}
    THEN [raised |-> FALSE, created |-> {}]
    ELSE IF missing_indices(results) = {}
    THEN [raised |-> FALSE, created |-> {}]
    ELSE IF \A i \in existing_indices(results) : results[i] = "none"
    THEN [raised |-> FALSE, created |-> {}]
    ELSE [raised |-> TRUE, created |-> {}]

fill_missing_files_Call ==
    /\ pc = "created"
    /\ call = NoCall
    /\ \E results \in [GapIndices -> {"absent", "none", "AA"}],
          file_size \in {2 * CHUNK_SIZE, 2 * CHUNK_SIZE + 16} :
         LET r == fill_missing_files(results, file_size)
         IN  call' = [op |-> "fill_missing_files", results |-> results,
                      file_size |-> file_size, raised |-> r.raised,
                      created |-> r.created]
    /\ UNCHANGED stored
    /\ UNCHANGED libEngineVars

\* ---------------------------------- FileAnalyzer.expand_file_to_target_size
\* A file is the sequence of its bytes; a size is a number of bytes.

\* faulty variant of the chunk size: always a whole chunk
chunk_not_limited(remaining) == FileAnalyzer_CHUNK_SIZE

\* chunk_size of the loop (line 355)
expand_chunk_size(remaining) ==
    IF FileAnalyzer_CHUNK_SIZE < remaining THEN FileAnalyzer_CHUNK_SIZE ELSE remaining

\* the while loop of expand_file_to_target_size (lines 353-365): the file and
\* the calls of progress_callback made so far, after the rest of the loop
RECURSIVE expand_loop(_, _, _, _, _, _)
expand_loop(data, kind, current_size, target, bytes_written, callbacks) ==
    LET bytes_to_add == target - current_size
    IN  IF bytes_written < bytes_to_add
        THEN LET chunk_size == expand_chunk_size(bytes_to_add - bytes_written)
                 chunk == generate_bytes([kind |-> kind, seed |-> 0, pos |-> 0],
                                         chunk_size)
             IN  expand_loop(data \o chunk, kind, current_size, target,
                             bytes_written + chunk_size,
                             Append(callbacks,
                                    <<current_size + bytes_written + chunk_size, target>>))
        ELSE [result |-> TRUE, data |-> data, callbacks |-> callbacks]

\* expand_file_to_target_size on a file that can be read and written
expand_file_to_target_size(data, kind, target) ==
    IF Len(data) >= target
    THEN [result |-> TRUE, data |-> data, callbacks |-> <<>>]
    ELSE expand_loop(data, kind, Len(data), target, 0, <<>>)

\* files of some lengths around the chunk size, of bytes 1, 2, 3, 1, ...
ExpandFiles ==
    {[i \in 1..n |-> 1 + (i % 3)] :
        n \in {0, 5, FileAnalyzer_CHUNK_SIZE, 2 * FileAnalyzer_CHUNK_SIZE + 1,
               3 * FileAnalyzer_CHUNK_SIZE}}

expand_file_to_target_size_Call ==
    /\ pc = "created"
    /\ call = NoCall
    /\ \E data \in ExpandFiles, kind \in {"00", "FF", "AA", "55"},
          file_size \in {0, FileAnalyzer_CHUNK_SIZE, 2 * FileAnalyzer_CHUNK_SIZE + 8} :
         LET r == expand_file_to_target_size(data, kind, expected_size(file_size))
         IN  call' = [op |-> "expand_file_to_target_size", before |-> data,
                      kind |-> kind, target |-> expected_size(file_size),
                      result |-> r.result, after |-> r.data,
                      callbacks |-> r.callbacks]
    /\ UNCHANGED stored
    /\ UNCHANGED libEngineVars

\* ------------------------------------------- FileAnalyzer._detect_pattern
\* bytes are numbers 0..255 and a file is the sequence of its bytes
SAMPLE_SIZE == 1024

\* f.read() without a size: the whole file
read_whole_file(data) == data

\* f.read(self.SAMPLE_SIZE): the first SAMPLE_SIZE bytes, or all there are
read_sample(data) ==
    SubSeq(data, 1, IF Len(data) < SAMPLE_SIZE THEN Len(data) ELSE SAMPLE_SIZE)

\* bytes([b] * sample_len)
pattern_bytes(b, sample_len) == [i \in 1..sample_len |-> b]

\* FileAnalyzer._detect_pattern; open() or read() raising is the file that is
\* not readable, and the except branch returns None
FileAnalyzer_detect_pattern(readable, data) ==
    IF ~readable THEN "None"
    ELSE LET sample == read_sample(data)
             sample_len == Len(sample)
             unique_bytes == Cardinality(Range(sample))
         IN  IF sample_len = 0 THEN "None"
             ELSE IF sample = pattern_bytes(0, sample_len) THEN "00"
             ELSE IF sample = pattern_bytes(255, sample_len) THEN "FF"
             ELSE IF sample = pattern_bytes(170, sample_len) THEN "AA"
             ELSE IF sample = pattern_bytes(85, sample_len) THEN "55"
             ELSE IF unique_bytes > 10 THEN "RND"
             ELSE "None"

\* files for _detect_pattern: empty, one byte repeated (the four patterns and
\* 0x33) up to one byte past the sample, the same with another byte at the
\* last place of the sample or at the first place after it, and 10 or 11
\* different bytes in turn, also with an 11th value only after the sample
DetectFiles ==
    LET Cyclic(n, k) == [i \in 1..n |-> (i - 1) % k]
        Uniform == {pattern_bytes(b, n) : b \in {0, 255, 170, 85, 51},
                                          n \in {1, SAMPLE_SIZE, SAMPLE_SIZE + 1}}
        Changed == {[pattern_bytes(b, SAMPLE_SIZE + 1) EXCEPT ![p] = 51] :
                        b \in {0, 255, 170, 85}, p \in {SAMPLE_SIZE, SAMPLE_SIZE + 1}}
        Varied  == {Cyclic(n, k) : n \in {11, SAMPLE_SIZE}, k \in {10, 11}}
        Late    == {[Cyclic(SAMPLE_SIZE + 1, 10) EXCEPT ![SAMPLE_SIZE + 1] = 200]}
    IN  {<< >>} \cup Uniform \cup Changed \cup Varied \cup Late

detect_pattern_Call ==
    /\ pc = "created"
    /\ call = NoCall
    /\ \E readable \in BOOLEAN, data \in DetectFiles :
         call' = [op |-> "detect_pattern", readable |-> readable, data |-> data,
                  result |-> FileAnalyzer_detect_pattern(readable, data)]
    /\ UNCHANGED stored
    /\ UNCHANGED libEngineVars

\* the library calls, on their own: one call of a method in a behaviour, and
\* load() after the session file was written
NextLib ==
    \/ SessionManager_save_Call
    \/ session_file_Replaced
    \/ SessionManager_load_Call
    \/ get_progress_percentage_Call
    \/ get_file_path_Call
    \/ calculate_file_count_Call
    \/ categorize_files_Call
    \/ PatternGenerator_Call
    \/ verify_file_Call
    \/ verify_file_position_Call
    \/ fill_missing_files_Call
    \/ expand_file_to_target_size_Call
    \/ detect_pattern_Call

SpecLib == Init /\ [][NextLib]_vars

\* ------------------------------------------------------ the progress counters
\* The run of a new session on storage that works, without control calls,
\* reduced to what progress_updated carries: the record in call holds the loop
\* position of run(), bytes_processed, total_bytes and the last event.
PROGRESS_UPDATE_INTERVAL == 4

\* _emit_progress is called for this chunk (lines 526, 682)
emits_progress(chunk, chunks) ==
    chunk % PROGRESS_UPDATE_INTERVAL = 0 \/ chunk = chunks - 1

\* __init__ (lines 128-129) and _start_new_session (line 228)
run_Progress_Start ==
    /\ pc = "created"
    /\ call = NoCall
    /\ \E patterns \in 1..2, file_count \in 1..MaxFiles,
          file_size \in {CHUNK_SIZE, 2 * CHUNK_SIZE + 16, 5 * CHUNK_SIZE} :
         call' = [op |-> "run", patterns |-> patterns, file_count |-> file_count,
                  chunks |-> file_size \div CHUNK_SIZE,
                  pattern |-> 0, phase |-> "write", file |-> 0, chunk |-> 0,
                  bytes_processed |-> 0,
                  total_bytes |-> file_count * file_size,
                  events |-> 0, current_bytes |-> 0, event_total |-> 0]
    /\ UNCHANGED stored
    /\ UNCHANGED libEngineVars

\* one iteration of the chunk loop of _write_file or _verify_file (lines
\* 509-527, 665-683), with the loop heads of the file, the phase and the
\* pattern that follow it
run_Progress_Chunk ==
    /\ call.op = "run"
    /\ call.phase \in {"write", "verify"}
    /\ LET processed == call.bytes_processed + CHUNK_SIZE
           emit == emits_progress(call.chunk, call.chunks)
           file_done == call.chunk + 1 >= call.chunks
           phase_done == file_done /\ call.file + 1 >= call.file_count
           pattern_done == phase_done /\ call.phase = "verify"
       IN  call' = [call EXCEPT
                      !.bytes_processed = processed,
                      !.events = IF emit THEN 1 ELSE 0,
                      !.current_bytes = IF emit THEN processed ELSE @,
                      !.event_total = IF emit THEN call.total_bytes ELSE @,
                      !.chunk = IF file_done THEN 0 ELSE @ + 1,
                      !.file = IF phase_done THEN 0 ELSE IF file_done THEN @ + 1 ELSE @,
                      !.phase = IF pattern_done
                                THEN (IF call.pattern + 1 >= call.patterns
                                      THEN "end" ELSE "write")
                                ELSE IF phase_done THEN "verify" ELSE @,
                      !.pattern = IF pattern_done THEN @ + 1 ELSE @]
    /\ UNCHANGED stored
    /\ UNCHANGED libEngineVars

\* _complete_test (lines 800-802)
run_Progress_Complete ==
    /\ call.op = "run"
    /\ call.phase = "end"
    /\ call' = [call EXCEPT !.bytes_processed = call.total_bytes,
                            !.events = 1,
                            !.current_bytes = call.total_bytes,
                            !.event_total = call.total_bytes,
                            !.phase = "completed"]
    /\ UNCHANGED stored
    /\ UNCHANGED libEngineVars

NextProgress ==
    \/ run_Progress_Start
    \/ run_Progress_Chunk
    \/ run_Progress_Complete

SpecProgress == Init /\ [][NextProgress]_vars

\* ---------------------------------------------------------------------------
\* Properties of the library calls
\* ---------------------------------------------------------------------------

\* the record of a session file carries the version the loader knows: the
\* number 1 under the key "version"
recognized_version(file) ==
    /\ "version" \in DOMAIN file.members
    /\ file.members["version"].json = "number"
    /\ file.members["version"].v = 1

\* C15: load fails closed: for a session file whose version is not the
\* recognized one load() raises an error instead of returning a session, and
\* load() leaves the file as it found it.
C15_LoadFailsClosed ==
    call.op = "load" =>
        /\ ~recognized_version(call.file) => call.result.raised # "no"
        /\ stored = call.file

C17_ProgressFormula ==
    call.op = "get_progress_percentage" =>
        LET file_count == call.data.file_count.v
            units == call.completed_count * 2
                       + (IF call.data.current_phase = PyStr("verify") THEN 1 ELSE 0)
            p == (units * file_count + call.data.current_file_index.v) * 100
            q == call.selected_count * 2 * file_count
        IN  FracEq(call.result,
                   IF p < 0 THEN Frac(0, 1)
                   ELSE IF p > 100 * q THEN Frac(100, 1) ELSE Frac(p, q))

\* the number a sequence of decimal digits stands for
RECURSIVE decimal_value(_)
decimal_value(digits) ==
    IF digits = <<>> THEN 0
    ELSE 10 * decimal_value(SubSeq(digits, 1, Len(digits) - 1)) + digits[Len(digits)]

\* C18: the digit width is 3 below 1000 files, 4 below 10000, 5 below 100000
\* and 6 otherwise; with it every index 0..file_count-1 maps without error to
\* disktest_<index+1 padded with zeros to exactly width digits>.dat, two
\* different indices to different paths, and an index whose 1-based number does
\* not fit in width digits raises an error.
C18_DigitsAndPaths ==
    call.op = "get_file_path" =>
        /\ call.digits = (IF call.file_count < 1000 THEN 3
                          ELSE IF call.file_count < 10000 THEN 4
                          ELSE IF call.file_count < 100000 THEN 5 ELSE 6)
        /\ call.index \in 0..(call.file_count - 1) =>
              /\ call.result.raised = "no"
              /\ call.result.value.prefix = "disktest_"
              /\ call.result.value.suffix = ".dat"
              /\ Len(call.result.value.number) = call.digits
              /\ \A i \in DOMAIN call.result.value.number :
                    call.result.value.number[i] \in 0..9
              /\ decimal_value(call.result.value.number) = call.index + 1
              /\ (call.other \in 0..(call.file_count - 1) /\ call.other # call.index) =>
                    /\ call.other_result.raised = "no"
                    /\ call.other_result.value # call.result.value
        /\ call.index + 1 >= 10^call.digits => call.result.raised # "no"

\* the last file of a test of 1000 files gets a name of four digits
C18_Witness ==
    /\ call.op = "get_file_path"
    /\ call.file_count = 1000
    /\ call.index = 999
    /\ call.other = 0
    /\ call.result.raised = "no"
    /\ call.result.value.number = <<1, 0, 0, 0>>
    /\ call.other_result.value.number = <<0, 0, 0, 1>>

C20_Categories ==
    call.op = "categorize_files" =>
        \A i \in DOMAIN call.results :
            LET r == call.results[i]
                detected == r.detected_pattern # "None"
                times(c) == Cardinality({j \in DOMAIN call.result[c] :
                                            call.result[c][j] = r})
            IN  /\ times("complete") > 0
                      <=> (r.actual_size = call.expected_size /\ detected)
                /\ times("smaller_consistent") > 0
                      <=> (0 < r.actual_size /\ r.actual_size < call.expected_size
                             /\ detected)
                /\ times("corrupted_incomplete") > 0
                      <=> (~detected \/ r.actual_size = 0
                             \/ r.actual_size > call.expected_size)
                /\ times("complete") + times("smaller_consistent")
                      + times("corrupted_incomplete") = 1

\* a directory with one complete file and one smaller file with a pattern
C20_Witness ==
    /\ call.op = "categorize_files"
    /\ Len(call.result["complete"]) = 1
    /\ Len(call.result["smaller_consistent"]) = 1
    /\ Len(call.result["corrupted_incomplete"]) = 0

\* C21: Random generation is replayable: two Random generators with the same
\* seed return byte-identical chunks for the same sequence of requested sizes,
\* and so does one generator after reset(), however many chunks it had
\* returned before the reset.
C21_RandomReplayable ==
    (call.op = "PatternGenerator" /\ call.kind = "RND") =>
        call.second_reset = call.first

\* a Random generator that had returned two chunks repeats, after reset(), the
\* chunks of a fresh generator, which it would not have returned without reset()
C21_Witness ==
    /\ call.op = "PatternGenerator"
    /\ call.kind = "RND"
    /\ call.before = <<5, 1>>
    /\ call.sizes = <<1, 5>>
    /\ call.second_reset = call.first
    /\ call.second # call.first

\* the canonical byte value of a fixed pattern kind
CanonicalValue(kind) ==
    CASE kind = "00" -> 0 [] kind = "FF" -> 255 [] kind = "AA" -> 170 [] kind = "55" -> 85

\* C22: for every fixed pattern kind and every n >= 0, generate_chunk(n)
\* returns exactly n bytes, all of the kind's canonical value (0x00, 0xFF, 0xAA,
\* 0x55), whatever was generated before and with or without reset().
C22_FixedChunks ==
    (call.op = "PatternGenerator" /\ call.kind # "RND") =>
        \A chunks \in {call.first, call.second, call.second_reset} :
            /\ Len(chunks) = Len(call.sizes)
            /\ \A i \in DOMAIN chunks :
                  /\ Len(chunks[i]) = call.sizes[i]
                  /\ \A b \in DOMAIN chunks[i] : chunks[i][b] = CanonicalValue(call.kind)

\* an AltAA generator returned a chunk of 5 bytes and an empty one after
\* earlier chunks
C22_Witness ==
    /\ call.op = "PatternGenerator"
    /\ call.kind = "AA"
    /\ call.before = <<4, 1>>
    /\ call.sizes = <<5, 0>>
    /\ call.second = <<<<170, 170, 170, 170, 170>>, <<>>>>

AtVerifyResumePattern ==
    /\ hist.resumed_from = "verify"
    /\ session # NoSession
    /\ session.current_pattern_name = initial_resume.pattern

Abandoning == {"OTHER", "TRUNCATED", "ENOENT"}

ResumedFromWrite(loop_pc) ==
    /\ hist.resumed_from = "write"
    /\ pc = loop_pc
    /\ session # NoSession
    /\ file_idx < session.file_count

\* the file the step opens is written from chunk 0
OpenedFromChunkZero ==
    pc' \in {"write_chunk", "write_file_done"} =>
        /\ chunk_idx' = 0
        /\ disk'[file_idx].data = <<>>

InVerify ==
    \/ pc \in {"verify_pattern", "verify_chunk", "verify_file_done", "verify_returned",
               "verify_pattern_done"}
    \/ /\ pc \in {"handle_pause", "stop_after_file_wait"}
       /\ session.current_phase = "verify"

\* the worker is in the Write phase of the current pattern
InWrite ==
    \/ pc \in {"write_pattern", "write_chunk", "write_file_done", "write_returned"}
    \/ /\ pc \in {"handle_pause", "stop_after_file_wait"}
       /\ session.current_phase = "write"

\* the Write phase goes over the files in ascending order and writes only to
\* the file it is at
WriteAscending ==
    /\ (InWrite /\ InWrite') => file_idx' \in {file_idx, file_idx + 1}
    /\ \A i \in DOMAIN disk : disk'[i] # disk[i] => (InWrite /\ i = file_idx)

\* the Verify phase starts when the Write phase is past the last file
VerifyAfterWrite ==
    (~InVerify /\ InVerify') =>
        (pc = "write_pattern_done" /\ file_idx >= session.file_count)

\* a pattern is appended when its Verify phase is past the last file, in a run
\* that was not stopped and hit no fatal error
AppendedAfterVerify ==
    (session # NoSession /\ session'.completed_patterns # session.completed_patterns) =>
        /\ session'.completed_patterns =
              Append(session.completed_patterns, session.current_pattern_name)
        /\ InVerify /\ file_idx >= session.file_count
        /\ ~hist.stop_called
        /\ hist.fatal = "none"

ChunkIO ==
    /\ pc \in {"write_chunk", "verify_chunk"}
    /\ pc' # pc \/ chunk_idx' # chunk_idx

StopAfterFileRequested ==
    /\ pc \in {"write_chunk", "verify_chunk"}
    /\ stop_after_file_event
    /\ ~stop_event

\* the worker is suspended after the file it finished
PausedAfterFile ==
    /\ pc = "stop_after_file_wait"
    /\ state = "PAUSED"
    /\ stored = session
    /\ stored.current_chunk_index = 0

\* with the request set the worker stays in the file until its last chunk
\* (a fatal error ends the run), suspends after it with the checkpoint saved,
\* and leaves the wait only after resume() or stop()
StopAfterFileStep ==
    /\ (StopAfterFileRequested /\ hist'.fatal = "none") =>
            pc' \in {pc, "handle_pause",
                     IF pc = "write_chunk" THEN "write_file_done" ELSE "verify_file_done"}
    /\ (StopAfterFileRequested /\ pc' \in {"write_file_done", "verify_file_done"}) =>
            chunk_idx' >= chunks_total(session)
    /\ (pc \in {"write_file_done", "verify_file_done"} /\ stop_after_file_event
            /\ pc' # pc) => PausedAfterFile'
    /\ (pc = "stop_after_file_wait" /\ pc' # pc) =>
            (~stop_after_file_event \/ stop_event)

\* on storage that works the worker gets to the suspension after the file,
\* unless pause(), resume() or stop() comes first
StopAfterFileReached ==
    StopAfterFileRequested ~>
        (PausedAfterFile \/ pc = "handle_pause" \/ stop_event \/ ~stop_after_file_event)

CanonicalIndex(p) == CHOOSE i \in DOMAIN PATTERN_SEQUENCE : PATTERN_SEQUENCE[i] = p

FileIO ==
    \/ disk' # disk
    \/ ChunkIO
    \/ pc = "verify_pattern" /\ pc' \in {"verify_chunk", "verify_file_done", "verify_returned"}

\* the step emits pattern_changed or phase_changed
PatternOrPhaseEvent ==
    \/ pc = "pattern_loop" /\ pc' = "write_pattern"
    \/ pc = "write_pattern_done" /\ pc' = "verify_pattern"

NoDuplicates(seq) == \A i, j \in DOMAIN seq : seq[i] = seq[j] => i = j

WrittenChunk(kind) == [i \in 1..CHUNK_SIZE |-> fixed_byte(kind)]

\* C32: a content mismatch does not end the file: every chunk of the file is
\* read and compared, one error is recorded for each chunk that differs and
\* none for the others, and the error carries the file offset chunk_index x
\* chunk_size + position of the first differing byte with the expected and the
\* actual byte at that position.
C32_MismatchContinues ==
    (/\ call.op = "verify_file"
     /\ \A k \in DOMAIN call.reads : Len(call.reads[k]) = CHUNK_SIZE) =>
        /\ call.result
        /\ call.compared = Len(call.reads)
        /\ \A k \in DOMAIN call.reads :
              Cardinality({n \in DOMAIN call.errors : call.errors[n].chunk = k - 1})
                = IF call.reads[k] # WrittenChunk(call.kind) THEN 1 ELSE 0
        /\ \A n \in DOMAIN call.errors :
              LET e == call.errors[n]
                  actual == call.reads[e.chunk + 1]
              IN  /\ e.kind = "verification"
                  /\ actual[e.offset + 1] # fixed_byte(call.kind)
                  /\ \A j \in 1..e.offset : actual[j] = fixed_byte(call.kind)
                  /\ e.abs_offset = e.chunk * CHUNK_SIZE + e.offset
                  /\ e.expected = fixed_byte(call.kind)
                  /\ e.actual = actual[e.offset + 1]

C32_Witness ==
    /\ call.op = "verify_file"
    /\ call.kind = "AA"
    /\ Len(call.reads) = 2
    /\ call.compared = 2
    /\ Len(call.errors) = 2
    /\ call.reads[1][1] = 170 /\ call.reads[1][2] = 0
    /\ call.errors[1].abs_offset = 1
    /\ call.errors[2].abs_offset = 2 * CHUNK_SIZE - 1
    /\ call.errors[2].actual = 0

\* the worker's read of a chunk returns fewer bytes than a chunk (the read
\* does not raise: no fault is counted)
TruncatedRead ==
    /\ pc = "verify_chunk"
    /\ rpos >= Len(disk[file_idx].data)
    /\ pc' # pc
    /\ hist'.faults = hist.faults

C36_SeekPosition ==
    call.op = "verify_file_position" =>
        LET offset == call.start_chunk * CHUNK_SIZE
        IN  IF call.direct /\ offset % call.sector_size # 0
            THEN /\ call.position % call.sector_size = 0
                 /\ call.position <= offset
                 /\ offset < call.position + call.sector_size
            ELSE call.position = offset

C36_Witness ==
    /\ call.op = "verify_file_position"
    /\ call.direct
    /\ call.start_chunk = 2
    /\ call.sector_size = CHUNK_SIZE + CHUNK_SIZE \div 2
    /\ call.position = call.sector_size
    /\ call.position < 2 * CHUNK_SIZE

\* C37: with a detected pattern among the files present, every missing index
\* between the lowest and the highest present index gets a file, and no other
\* index does; without a detected pattern, or without files, nothing is
\* created.
C37_GapsFilled ==
    call.op = "fill_missing_files" =>
        LET present == {i \in GapIndices : call.results[i] # "absent"}
            gaps == {i \in GapIndices \ present :
                        \E a, b \in present : a < i /\ i < b}
            detected == \E i \in present : call.results[i] # "none"
        IN  /\ ~call.raised
            /\ call.created = IF detected THEN gaps ELSE {}

SampleValues(data) ==
    {data[i] : i \in {j \in DOMAIN data : j <= 1024}}

====
